---- MODULE Spec2Model ----
(***************************************************************************)
(* A model of mcp_terminal.terminal.TerminalExecutor: command validation,  *)
(* the batch entry point execute, the streaming entry point                *)
(* execute_stream and the resource monitor _monitor_process, together with *)
(* the part of the operating system and of the asyncio subprocess          *)
(* transport that the code observes (process exit, pipe end-of-data, the   *)
(* child watcher, kill); and of mcp_terminal.server.MCPTerminalServer: its *)
(* message loop and _handle_message, which calls execute.                  *)
(*                                                                         *)
(* Text is a sequence of one-character strings.  A fixed message of the    *)
(* program ("command not allowed", ...) is kept as a one-element sequence  *)
(* holding the whole message.  Bytes are numbers.                          *)
(***************************************************************************)
EXTENDS Integers, Sequences, FiniteSets, TLC

VARIABLES
    executor,      \* the TerminalExecutor's fields, set by __init__
    mode,          \* "idle" | "execute" | "execute_stream": the entry point called
    command,       \* the command argument of the call
    pc,            \* where the coroutine of the call is suspended
    os,            \* the operating system's view of the child process
    process,       \* asyncio's Process object: returncode, reader buffers, eof flags
    monitor_task,  \* the task running _monitor_process
    stream,        \* execute_stream's locals: stdout_done, stderr_done, total_size
    yielded,       \* the chunks execute_stream has yielded so far
    outcome,       \* what the call delivered to its caller
    log,           \* counters: processes spawned, calls of process.kill() (those
                   \* that raise included), outcomes delivered
    running,       \* 1 | 2: which of two calls on the executor the variables
                   \* above belong to (the one the event loop is running)
    suspended,     \* the locals of the other call, suspended at an await
    server         \* MCPTerminalServer: where its message loop is, the message
                   \* it is handling, the lines read and the messages written

vars == << executor, mode, command, pc, os, process, monitor_task, stream,
           yielded, outcome, log, running, suspended, server >>

\* A value that may be None (Python's Optional) is a sequence of no element
\* (None) or of one element (the value).
None == << >>

Some(x) == << x >>

Val(o) == o[1]

(***************************************************************************)
(* Bounds of the model.                                                    *)
(***************************************************************************)
\* most bytes the child writes to one output channel
MaxOut == 1
\* most live descendants of the child at one time
MaxChildren == 1
\* largest CPU-time / memory reading a monitor sample returns
MaxUsage == 2
\* longest command text of the validation specification
MaxCmdLen == 4

\* read(1024): the most bytes one streaming read returns
ReadSize == 1024

(***************************************************************************)
(* Text helpers.                                                           *)
(***************************************************************************)
Msg(m) == << m >>

\* Python's str(n) for a natural number
RECURSIVE str(_)
str(n) ==
    LET digit(d) == << "0", "1", "2", "3", "4", "5", "6", "7", "8", "9" >>[d + 1]
    IN  IF n < 10 THEN digit(n) ELSE str(n \div 10) \o digit(n % 10)

Min(a, b) == IF a < b THEN a ELSE b

Take(s, n) == SubSeq(s, 1, Min(n, Len(s)))

\* a read that leaves what it returned in the buffer
Drop_nothing(s, n) == s

Drop(s, n) == SubSeq(s, Min(n, Len(s)) + 1, Len(s))

\* Python's  op in command  for strings: op occurs as a contiguous substring
Contains(s, op) ==
    \E i \in 1..(Len(s) - Len(op) + 1) : SubSeq(s, i, i + Len(op) - 1) = op

\* Python's  x in list
InList(x, l) == \E i \in 1..Len(l) : l[i] = x

(***************************************************************************)
(* shlex.split(command): POSIX mode, whitespace_split, no comments.        *)
(* Tokens are separated by whitespace; a single quote opens a quoted       *)
(* stretch that ends at the next single quote; a quote left open is a      *)
(* ValueError ("No closing quotation").  Every other character, the shell  *)
(* operators included, is an ordinary word character.                      *)
(***************************************************************************)
RECURSIVE shlex_scan(_, _, _, _, _, _)
shlex_scan(s, i, parts, token, inToken, inQuote) ==
    IF i > Len(s)
    THEN IF inQuote
         THEN [ok |-> FALSE, parts |-> << >>]
         ELSE [ok |-> TRUE,
               parts |-> IF inToken THEN Append(parts, token) ELSE parts]
    ELSE IF inQuote
         THEN IF s[i] = "'"
              THEN shlex_scan(s, i + 1, parts, token, TRUE, FALSE)
              ELSE shlex_scan(s, i + 1, parts, Append(token, s[i]), TRUE, TRUE)
         ELSE IF s[i] = "'"
              THEN shlex_scan(s, i + 1, parts, token, TRUE, TRUE)
              ELSE IF s[i] = " "
                   THEN IF inToken
                        THEN shlex_scan(s, i + 1, Append(parts, token), << >>, FALSE, FALSE)
                        ELSE shlex_scan(s, i + 1, parts, << >>, FALSE, FALSE)
                   ELSE shlex_scan(s, i + 1, parts, Append(token, s[i]), TRUE, FALSE)

shlex_split(s) == shlex_scan(s, 1, << >>, << >>, FALSE, FALSE)

\* the backquote character (a name stands for it: the character itself cannot
\* be written inside a string of this module)
Backquote == "BACKQUOTE"

\* the operators _validate_command looks for in the command text
shell_operators == << <<"&", "&">>, <<"|", "|">>, <<"|">>, <<";">>, <<Backquote>> >>

\* Python truthiness of an optional list: None and the empty list are falsy
TruthyList(o) == o # None /\ Val(o) # << >>

\* Python truthiness of an optional number: None and 0 are falsy
TruthyInt(o) == o # None /\ Val(o) # 0

\* a validation that looks for shell operators before it looks whether an
\* allow-list is configured
validate_command_operators_first(allowed_commands, cmd) ==
    IF \E i \in 1..Len(shell_operators) : Contains(cmd, shell_operators[i])
    THEN FALSE
    ELSE IF ~TruthyList(allowed_commands)
         THEN TRUE
         ELSE LET split == shlex_split(cmd)
              IN  IF ~split.ok
                  THEN FALSE
                  ELSE IF split.parts = << >>
                       THEN FALSE
                       ELSE InList(split.parts[1], Val(allowed_commands))

(***************************************************************************)
(* TerminalExecutor._validate_command                                      *)
(***************************************************************************)
validate_command(allowed_commands, cmd) ==
    IF ~TruthyList(allowed_commands)
    THEN TRUE
    ELSE LET split == shlex_split(cmd)
         IN  IF ~split.ok
             THEN FALSE
             ELSE IF split.parts = << >>
                  THEN FALSE
                  ELSE IF \E i \in 1..Len(shell_operators) : Contains(cmd, shell_operators[i])
                       THEN FALSE
                       ELSE InList(split.parts[1], Val(allowed_commands))


(***************************************************************************)
(* Inputs: the commands callers pass and the configurations executors are  *)
(* constructed with.  e and c stand for two executables' names.            *)
(***************************************************************************)
Alphabet == { "e", "c", " ", "'", ";", "&", "|", Backquote }

\* every command text of at most MaxCmdLen characters
AllCommands == UNION { [1..k -> Alphabet] : k \in 0..MaxCmdLen }

\* the commands the calls of the full specification pass
Commands == { << "e" >>, << "c" >>, << "e", ";", "c" >> }

AllowLists ==
    { None, Some(<< >>), Some(<< <<"e">> >>), Some(<< <<"e">>, <<"c">> >>) }

\* cpu_time_ms, max_memory_mb, max_processes: each absent, 0 or 1
LimitSettings ==
    { << None, None, None >>,
      << Some(1), None, None >>,
      << None, Some(1), None >>,
      << None, None, Some(1) >>,
      << Some(0), Some(0), Some(0) >> }

OutputSizes == { 1, 2 }

\* max_output_size when the caller gives none: 1024 * 1024
DefaultOutputSize == 1048576

\* the exit codes a child ends with on its own
ExitCodes == { 0, 3 }

\* the bytes a child writes: the ASCII letter a (97) and 0xFF (255), which is
\* not valid UTF-8
Bytes == { 97, 255 }

Channels == { "stdout", "stderr" }

(***************************************************************************)
(* The command runs under /bin/sh -c.  A shell that cannot locate the      *)
(* executable writes its own message to stderr and exits with 127.  The    *)
(* wording is the shell's: dash ends it with "not found", bash with        *)
(* "command not found" (the text before it, which names the shell and the  *)
(* command, is left out).                                                  *)
(***************************************************************************)
Shells == { "dash", "bash" }

NotFoundText == << "n", "o", "t", " ", "f", "o", "u", "n", "d" >>

CommandNotFoundText == << "c", "o", "m", "m", "a", "n", "d", " " >> \o NotFoundText

ShellNotFoundMessage(sh) ==
    IF sh = "bash" THEN CommandNotFoundText ELSE NotFoundText

ShellNotFoundCode == 127

(***************************************************************************)
(* bytes.decode('utf-8'): a byte below 128 is the character with that      *)
(* code; the byte 0xFF starts no character (UnicodeDecodeError).           *)
(***************************************************************************)
Ascii ==
    (" " :> 32) @@ ("a" :> 97) @@ ("c" :> 99) @@ ("d" :> 100) @@ ("f" :> 102)
    @@ ("m" :> 109) @@ ("n" :> 110) @@ ("o" :> 111) @@ ("t" :> 116) @@ ("u" :> 117)

\* str.encode() of a text of these characters
encode(text) == [i \in 1..Len(text) |-> Ascii[text[i]]]

chr(b) ==
    IF \E c \in DOMAIN Ascii : Ascii[c] = b
    THEN CHOOSE c \in DOMAIN Ascii : Ascii[c] = b
    ELSE "?"

decodable(bs) == \A i \in 1..Len(bs) : bs[i] < 128

decode(bs) == [i \in 1..Len(bs) |-> chr(bs[i])]

(***************************************************************************)
(* The state before any call.                                              *)
(***************************************************************************)
NoProcessOS == [state |-> "none", code |-> None, children |-> 0,
                wrote |-> [stdout |-> << >>, stderr |-> << >>]]

NoProcess == [returncode |-> None,
              buf |-> [stdout |-> << >>, stderr |-> << >>],
              eof |-> [stdout |-> FALSE, stderr |-> FALSE]]

NoTask == [state |-> "none", exc |-> None]

NoOutcome == [kind |-> "none", exit_code |-> None, stdout |-> << >>,
              stderr |-> << >>, exc |-> None, msg |-> None]

\* TerminalExecutor.__init__
TerminalExecutor(allowed_commands, max_output_size, cpu_time_ms, max_memory_mb, max_processes) ==
    [allowed_commands |-> allowed_commands,
     max_output_size |-> max_output_size,
     cpu_time_ms |-> cpu_time_ms,
     max_memory_mb |-> max_memory_mb,
     max_processes |-> max_processes]


(***************************************************************************)
(* Exceptions and what a call delivers.                                    *)
(***************************************************************************)
Exception(type, msg) == [type |-> type, msg |-> msg]

\* isinstance(e, ValueError): UnicodeDecodeError is a subclass of ValueError
IsValueError(e) == e.type \in { "ValueError", "UnicodeDecodeError" }

IsTimeoutError(e) == e.type = "TimeoutError"

\* return CommandResult(command, exit_code, stdout, stderr, ...)
CommandResult(exit_code, out, err) ==
    [kind |-> "returned", exit_code |-> Some(exit_code), stdout |-> out,
     stderr |-> err, exc |-> None, msg |-> None]

\* the exception leaves the call
Raised(e) ==
    [kind |-> "raised", exit_code |-> None, stdout |-> << >>, stderr |-> << >>,
     exc |-> Some(e.type), msg |-> Some(e.msg)]

\* an async generator that ends without an exception
Ended == [NoOutcome EXCEPT !.kind = "ended"]

\* execute's except clauses without the re-raise of lines 354-356
execute_except_no_reraise(e) ==
    IF e.type = "FileNotFoundError"
    THEN CommandResult(127, << >>, Msg("command not found"))
    ELSE CommandResult(-1, << >>, e.msg)

\* the except clauses of execute (lines 343-365)
execute_except(e) ==
    IF e.type = "FileNotFoundError"
    THEN CommandResult(127, << >>, Msg("command not found"))
    ELSE IF IsTimeoutError(e) \/ IsValueError(e)
         THEN Raised(e)
         ELSE CommandResult(-1, << >>, e.msg)

(***************************************************************************)
(* asyncio's subprocess transport.  It is closed (its _proc is None) once  *)
(* the child watcher has reported the exit and both pipes have reached     *)
(* end-of-data; from then on process.kill() raises ProcessLookupError.     *)
(* Before that, kill() sends SIGKILL, which ends a running process and     *)
(* does nothing to one that has exited.                                    *)
(***************************************************************************)
TransportClosed ==
    /\ process.returncode # None
    /\ process.eof.stdout
    /\ process.eof.stderr

ProcessLookupError == Exception("ProcessLookupError", << >>)

\* a kill that never reaches the process
Killed_without_effect(o) == o

Killed(o) ==
    IF o.state = "running"
    THEN [o EXCEPT !.state = "exited", !.code = Some(-9)]
    ELSE o

\* a cancel() that the task ignores
Cancelled_without_effect(t) == t

\* task.cancel(): a task that has not finished is cancelled at its next step
Cancelled(t) ==
    IF t.state \in { "pending", "sleeping" }
    THEN [t EXCEPT !.state = "cancelled"]
    ELSE t

\* the counters after a step that spawned, issued and delivered so many
Count(spawned, killed, delivered) ==
    [spawns |-> log.spawns + spawned,
     kills |-> log.kills + killed,
     outcomes |-> log.outcomes + delivered]

\* the call delivers outcome o to its caller and is over
Deliver(o) ==
    /\ outcome' = o
    /\ pc' = "done"


(***************************************************************************)
(* TerminalExecutor.execute, from the call to the first await: validation  *)
(* (lines 287-298).                                                        *)
(***************************************************************************)
execute_validate(cmd) ==
    /\ pc = "idle"
    /\ mode' = "execute"
    /\ command' = cmd
    /\ IF ~validate_command(executor.allowed_commands, cmd)
       THEN /\ Deliver(CommandResult(126, << >>, Msg("command not allowed")))
            /\ log' = Count(0, 0, 1)
       ELSE /\ pc' = "spawn"
            /\ UNCHANGED << outcome, log >>
    /\ UNCHANGED << running, suspended, executor, os, process, monitor_task, stream, yielded >>

\* a call of execute by a caller other than the server
execute(cmd) ==
    /\ execute_validate(cmd)
    /\ UNCHANGED server

(***************************************************************************)
(* await asyncio.create_subprocess_shell(...) and create_task (lines       *)
(* 300-309).  The shell is started, or the operating system refuses: the   *)
(* shell's executable is missing (FileNotFoundError) or the process cannot *)
(* be created (another OSError).                                           *)
(***************************************************************************)
SpawnResults == { "ok", "FileNotFoundError", "OSError" }

Spawned == [NoProcessOS EXCEPT !.state = "running"]

execute_spawn ==
    /\ pc = "spawn"
    /\ mode = "execute"
    /\ \E r \in SpawnResults :
          IF r = "ok"
          THEN /\ os' = Spawned
               /\ monitor_task' = [state |-> "pending", exc |-> None]
               /\ pc' = "communicate"
               /\ log' = Count(1, 0, 0)
               /\ UNCHANGED outcome
          ELSE /\ Deliver(execute_except(Exception(r, Msg("[Errno] " \o r))))
               /\ log' = Count(0, 0, 1)
               /\ UNCHANGED << os, monitor_task >>
    /\ UNCHANGED << server, running, suspended, executor, mode, command, process, stream, yielded >>

(***************************************************************************)
(* await asyncio.wait_for(process.communicate(), timeout) returns (lines   *)
(* 313-319): both channels have reached end-of-data and the exit has been  *)
(* reported.  The bytes read are those in the reader buffers.  Then        *)
(* monitor_task.cancel().                                                  *)
(***************************************************************************)
execute_communicate ==
    /\ pc = "communicate"
    /\ TransportClosed
    /\ monitor_task' = Cancelled(monitor_task)
    /\ pc' = "await_monitor"
    /\ UNCHANGED << server, running, suspended, executor, mode, command, os, process, stream,
                    yielded, outcome, log >>

(***************************************************************************)
(* await monitor_task and the rest of the try block (lines 320-336), then  *)
(* the except clauses or the final return (lines 343-374).                 *)
(***************************************************************************)
\* a final return that leaves stderr out of the result
execute_return_no_stderr(returncode, stdout, stderr) ==
    CommandResult(returncode, stdout, << >>)

\* the final return of execute (lines 367-374)
execute_return(returncode, stdout, stderr) ==
    CommandResult(returncode, stdout, stderr)

OutputExceeds(n) ==
    Exception("ValueError", << "Command output exceeds maximum size of", str(n), "bytes" >>)

execute_after_monitor ==
    LET stdout_bytes == process.buf.stdout
        stderr_bytes == process.buf.stderr
    IN  IF monitor_task.state = "raised"
        THEN \* await monitor_task raises the monitor's ValueError: re-raised
             /\ Deliver(execute_except(Val(monitor_task.exc)))
             /\ log' = Count(0, 0, 1)
             /\ os' = os
        ELSE IF monitor_task.state = "error"
        THEN \* another exception of the monitor: not caught at line 322
             /\ Deliver(execute_except(Val(monitor_task.exc)))
             /\ log' = Count(0, 0, 1)
             /\ os' = os
        ELSE IF ~decodable(stdout_bytes) \/ ~decodable(stderr_bytes)
        THEN /\ Deliver(execute_except(Exception("UnicodeDecodeError", Msg("invalid start byte"))))
             /\ log' = Count(0, 0, 1)
             /\ os' = os
        ELSE LET stdout == decode(stdout_bytes)
                 stderr == decode(stderr_bytes)
                 total_size == Len(stdout) + Len(stderr)
             IN  IF total_size > executor.max_output_size
                 THEN IF TransportClosed
                      THEN \* process.kill() raises
                           /\ Deliver(execute_except(ProcessLookupError))
                           /\ log' = Count(0, 1, 1)
                           /\ os' = os
                      ELSE /\ os' = Killed(os)
                           /\ Deliver(execute_except(OutputExceeds(executor.max_output_size)))
                           /\ log' = Count(0, 1, 1)
                 ELSE /\ Deliver(execute_return(Val(process.returncode), stdout, stderr))
                      /\ log' = Count(0, 0, 1)
                      /\ os' = os

execute_await_monitor ==
    /\ pc = "await_monitor"
    /\ execute_after_monitor
    /\ UNCHANGED << server, running, suspended, executor, mode, command, process, monitor_task,
                    stream, yielded >>

(***************************************************************************)
(* The deadline timeout_ms passes while communicate is pending: wait_for   *)
(* raises TimeoutError.  The handler of lines 338-341, then the except     *)
(* clauses of lines 343-365.                                               *)
(***************************************************************************)
TimeoutError == Exception("TimeoutError", << >>)

\* a timeout handler that starts the command again instead of raising
execute_timeout_retry ==
    /\ pc = "communicate"
    /\ monitor_task' = Cancelled(monitor_task)
    /\ os' = Killed(os)
    /\ pc' = "spawn"
    /\ log' = Count(0, 1, 0)
    /\ UNCHANGED << server, running, suspended, executor, mode, command, process, stream, yielded, outcome >>

\* a timeout handler without process.kill()
execute_timeout_no_kill ==
    /\ pc = "communicate"
    /\ monitor_task' = Cancelled(monitor_task)
    /\ Deliver(execute_except(TimeoutError))
    /\ log' = Count(0, 0, 1)
    /\ UNCHANGED << server, running, suspended, executor, mode, command, os, process, stream, yielded >>

execute_timeout ==
    /\ pc = "communicate"
    /\ monitor_task' = Cancelled(monitor_task)
    /\ IF TransportClosed
       THEN \* process.kill() raises inside the handler
            /\ Deliver(execute_except(ProcessLookupError))
            /\ log' = Count(0, 1, 1)
            /\ os' = os
       ELSE /\ os' = Killed(os)
            /\ Deliver(execute_except(TimeoutError))
            /\ log' = Count(0, 1, 1)
    /\ UNCHANGED << server, running, suspended, executor, mode, command, process, stream, yielded >>


(***************************************************************************)
(* TerminalExecutor.execute_stream, from the call to the first await:      *)
(* validation (lines 389-392).                                             *)
(***************************************************************************)
Chunk(tag, data) == [tag |-> tag, data |-> data]

execute_stream(cmd) ==
    /\ pc = "idle"
    /\ mode' = "execute_stream"
    /\ command' = cmd
    /\ IF ~validate_command(executor.allowed_commands, cmd)
       THEN /\ yielded' = Append(yielded, Chunk("stderr", Msg("command not allowed")))
            /\ Deliver(Ended)
            /\ log' = Count(0, 0, 1)
       ELSE /\ pc' = "spawn"
            /\ UNCHANGED << yielded, outcome, log >>
    /\ UNCHANGED << server, running, suspended, executor, os, process, monitor_task, stream >>

(***************************************************************************)
(* The except clauses of execute_stream (lines 473-479) for an exception e *)
(* raised in its try block; o is the operating system's view and k the     *)
(* kills issued when e was raised.                                         *)
(***************************************************************************)
\* handlers that deliver every failure, the timeout included, as a last
\* stderr chunk and end the sequence without raising
stream_except_as_chunk(e, o, k) ==
    /\ yielded' = Append(yielded, Chunk("stderr", e.msg))
    /\ Deliver(Ended)
    /\ os' = Killed(o)
    /\ log' = Count(0, k + 1, 1)

stream_except(e, o, k) ==
    IF IsTimeoutError(e)
    THEN IF TransportClosed
         THEN \* process.kill() raises inside the handler
              /\ Deliver(Raised(ProcessLookupError))
              /\ os' = o
              /\ log' = Count(0, k, 1)
              /\ UNCHANGED yielded
         ELSE /\ Deliver(Raised(e))
              /\ os' = Killed(o)
              /\ log' = Count(0, k + 1, 1)
              /\ UNCHANGED yielded
    ELSE /\ yielded' = Append(yielded, Chunk("stderr", e.msg))
         /\ Deliver(Raised(e))
         /\ os' = o
         /\ log' = Count(0, k, 1)

(***************************************************************************)
(* await asyncio.create_subprocess_shell(...) in execute_stream (lines     *)
(* 394-408).  No monitor task is created.                                  *)
(***************************************************************************)
execute_stream_spawn ==
    /\ pc = "spawn"
    /\ mode = "execute_stream"
    /\ \E r \in SpawnResults :
          IF r = "ok"
          THEN /\ os' = Spawned
               /\ pc' = "stream_loop"
               /\ log' = Count(1, 0, 0)
               /\ UNCHANGED << yielded, outcome >>
          ELSE stream_except(Exception(r, Msg("[Errno] " \o r)), os, 0)
    /\ UNCHANGED << server, running, suspended, executor, mode, command, process, monitor_task, stream >>

(***************************************************************************)
(* The head of the while loop and the deadline test (lines 410-414).       *)
(***************************************************************************)
StreamTimeout == Exception("TimeoutError", Msg("Command execution timed out"))

\* a loop head whose deadline test is missing
stream_loop_no_deadline ==
    /\ pc = "stream_loop"
    /\ IF stream.stdout_done /\ stream.stderr_done
       THEN /\ Deliver(Ended)
            /\ log' = Count(0, 0, 1)
            /\ UNCHANGED << os, yielded >>
       ELSE /\ pc' = IF ~stream.stdout_done THEN "read_stdout" ELSE "read_stderr"
            /\ UNCHANGED << os, yielded, outcome, log >>
    /\ UNCHANGED << server, running, suspended, executor, mode, command, process, monitor_task, stream >>

stream_loop ==
    /\ pc = "stream_loop"
    /\ IF stream.stdout_done /\ stream.stderr_done
       THEN /\ Deliver(Ended)
            /\ log' = Count(0, 0, 1)
            /\ UNCHANGED << os, yielded >>
       ELSE \E late \in BOOLEAN :
               IF late
               THEN IF TransportClosed
                    THEN stream_except(ProcessLookupError, os, 1)
                    ELSE stream_except(StreamTimeout, Killed(os), 1)
               ELSE /\ pc' = IF ~stream.stdout_done THEN "read_stdout" ELSE "read_stderr"
                    /\ UNCHANGED << os, yielded, outcome, log >>
    /\ UNCHANGED << server, running, suspended, executor, mode, command, process, monitor_task, stream >>

(***************************************************************************)
(* One bounded read of a channel and what follows it in the loop body      *)
(* (lines 416-437 for stdout, 439-460 for stderr).                         *)
(***************************************************************************)
SizeExceeded(n) == << "Output size exceeded", str(n), "bytes" >>

Done(ch) == IF ch = "stdout" THEN stream.stdout_done ELSE stream.stderr_done

SetDone(st, ch) ==
    IF ch = "stdout" THEN [st EXCEPT !.stdout_done = TRUE]
                     ELSE [st EXCEPT !.stderr_done = TRUE]

AfterRead(ch, st) ==
    IF ch = "stdout" /\ ~st.stderr_done THEN "read_stderr" ELSE "wait"

stream_read(ch) ==
    /\ pc = "read_" \o ch
    /\ LET data == Take(process.buf[ch], ReadSize)
           total_size == stream.total_size + Len(data)
       IN  IF data # << >>
           THEN /\ process' = [process EXCEPT !.buf[ch] = Drop(@, ReadSize)]
                /\ IF ~decodable(data)
                   THEN \* decode raises: except Exception
                        /\ stream' = SetDone(stream, ch)
                        /\ pc' = AfterRead(ch, stream')
                        /\ UNCHANGED << os, yielded, outcome, log >>
                   ELSE IF total_size > executor.max_output_size
                   THEN IF TransportClosed
                        THEN \* process.kill() raises: except Exception
                             /\ stream' = SetDone([stream EXCEPT !.total_size = total_size], ch)
                             /\ pc' = AfterRead(ch, stream')
                             /\ log' = Count(0, 1, 0)
                             /\ UNCHANGED << os, yielded, outcome >>
                        ELSE /\ stream' = [stream EXCEPT !.total_size = total_size]
                             /\ os' = Killed(os)
                             /\ yielded' = Append(yielded,
                                   Chunk("stderr", SizeExceeded(executor.max_output_size)))
                             /\ Deliver(Ended)
                             /\ log' = Count(0, 1, 1)
                   ELSE /\ stream' = [stream EXCEPT !.total_size = total_size]
                        /\ yielded' = Append(yielded, Chunk(ch, decode(data)))
                        /\ pc' = AfterRead(ch, stream')
                        /\ UNCHANGED << os, outcome, log >>
           ELSE /\ IF process.eof[ch]
                   THEN stream' = SetDone(stream, ch)     \* read returns b""
                   ELSE stream' = stream                  \* the read times out
                /\ pc' = AfterRead(ch, stream')
                /\ UNCHANGED << os, process, yielded, outcome, log >>
    /\ UNCHANGED << server, running, suspended, executor, mode, command, monitor_task >>

(***************************************************************************)
(* await asyncio.wait_for(process.wait(), 0.1) at the end of the loop body *)
(* (lines 462-471).                                                        *)
(***************************************************************************)
stream_wait ==
    /\ pc = "wait"
    /\ IF process.returncode # None /\ stream.stdout_done /\ stream.stderr_done
       THEN /\ Deliver(Ended)                              \* break
            /\ log' = Count(0, 0, 1)
       ELSE /\ pc' = "stream_loop"                         \* continue, or the wait times out
            /\ UNCHANGED << outcome, log >>
    /\ UNCHANGED << server, running, suspended, executor, mode, command, os, process, monitor_task, stream, yielded >>

(***************************************************************************)
(* TerminalExecutor._monitor_process: one run of the task from where it    *)
(* was suspended to its next await asyncio.sleep(0.05) or to its end       *)
(* (lines 222-272).  cpu and mem are what psutil reports; gone tells at    *)
(* which psutil call of this run, if at any, the process is found to have  *)
(* vanished (1 cpu_times, 2 memory_info, 3 children; 0 never); denied is   *)
(* a psutil error other than NoSuchProcess.                                *)
(***************************************************************************)
ResourceError(m) == Exception("ValueError", Msg(m))

\* psutil's children(recursive=True): the descendants of a live process
LiveChildren == IF os.state = "running" THEN os.children ELSE 0

\* a monitor whose handlers for psutil.NoSuchProcess are missing
NoSuchProcessUncaught ==
    [state |-> "error",
     exc |-> Some(Exception("NoSuchProcess", Msg("psutil.NoSuchProcess")))]

\* except psutil.NoSuchProcess (lines 266-272): the task ends without error
NoSuchProcessCaught == [state |-> "finished", exc |-> None]

monitor_sample(cpu, mem, gone, denied) ==
    LET vanished(k) == gone # 0 /\ gone <= k
        finished == /\ monitor_task' = [state |-> "finished", exc |-> None]
                    /\ UNCHANGED << os, log >>
        caught == /\ monitor_task' = NoSuchProcessCaught
                  /\ UNCHANGED << os, log >>
        sleep == /\ monitor_task' = [state |-> "sleeping", exc |-> None]
                 /\ UNCHANGED << os, log >>
        breach(m, o) == /\ monitor_task' = [state |-> "raised", exc |-> Some(ResourceError(m))]
                        /\ os' = Killed(o)
                        /\ log' = Count(0, 1, 0)
        check_processes ==
            IF TruthyInt(executor.max_processes)
            THEN IF vanished(3)
                 THEN sleep
                 ELSE IF LiveChildren + 1 > Val(executor.max_processes)
                      THEN breach("Process limit exceeded", [os EXCEPT !.children = 0])
                      ELSE sleep
            ELSE sleep
        check_memory ==
            IF TruthyInt(executor.max_memory_mb)
            THEN IF vanished(2)
                 THEN caught
                 ELSE IF mem > Val(executor.max_memory_mb)
                      THEN breach("Memory limit exceeded", os)
                      ELSE check_processes
            ELSE check_processes
        check_cpu ==
            IF TruthyInt(executor.cpu_time_ms)
            THEN IF vanished(1)
                 THEN caught
                 ELSE IF cpu > Val(executor.cpu_time_ms)
                      THEN breach("CPU time limit exceeded", os)
                      ELSE check_memory
            ELSE check_memory
    IN  IF monitor_task.state = "pending" /\ gone # 0
        THEN caught            \* psutil.Process(pid) raises NoSuchProcess
        ELSE IF process.returncode # None
        THEN finished          \* while process.returncode is None
        ELSE IF denied
        THEN /\ monitor_task' = [state |-> "error",
                                 exc |-> Some(Exception("AccessDenied", Msg("psutil.AccessDenied")))]
             /\ UNCHANGED << os, log >>
        ELSE check_cpu

AnyLimit ==
    \/ TruthyInt(executor.cpu_time_ms)
    \/ TruthyInt(executor.max_memory_mb)
    \/ TruthyInt(executor.max_processes)

\* what one run of the monitor may meet: readings of a live process, the
\* process gone at one of the three psutil calls, or another psutil error
Samples ==
    { [cpu |-> c, mem |-> m, gone |-> 0, denied |-> FALSE] : c \in 0..MaxUsage, m \in 0..MaxUsage }
    \cup { [cpu |-> 0, mem |-> 0, gone |-> k, denied |-> FALSE] : k \in 1..3 }
    \cup { [cpu |-> 0, mem |-> 0, gone |-> 0, denied |-> TRUE] }

monitor_process ==
    /\ monitor_task.state \in { "pending", "sleeping" }
    /\ \E s \in Samples :
          /\ s.gone # 0 => os.state = "exited"
          /\ s.denied => AnyLimit
          /\ monitor_sample(s.cpu, s.mem, s.gone, s.denied)
    /\ UNCHANGED << server, running, suspended, executor, mode, command, pc, process, stream, yielded, outcome >>

(***************************************************************************)
(* The child process and the event loop's view of it.                      *)
(***************************************************************************)
InProgress == pc \notin { "idle", "spawn", "done" }

\* the child writes one byte to a channel; the transport feeds it to the reader
child_write(ch, b) ==
    /\ InProgress
    /\ os.state = "running"
    /\ Len(os.wrote[ch]) < MaxOut
    /\ os' = [os EXCEPT !.wrote[ch] = Append(@, b)]
    /\ process' = [process EXCEPT !.buf[ch] = Append(@, b)]
    /\ UNCHANGED << server, running, suspended, executor, mode, command, pc, monitor_task, stream,
                    yielded, outcome, log >>

\* the child starts a descendant, which inherits both output channels
child_fork ==
    /\ InProgress
    /\ os.state = "running"
    /\ os.children < MaxChildren
    /\ os' = [os EXCEPT !.children = @ + 1]
    /\ UNCHANGED << server, running, suspended, executor, mode, command, pc, process, monitor_task,
                    stream, yielded, outcome, log >>

\* a descendant ends
descendant_exit ==
    /\ InProgress
    /\ os.children > 0
    /\ os' = [os EXCEPT !.children = @ - 1]
    /\ UNCHANGED << server, running, suspended, executor, mode, command, pc, process, monitor_task,
                    stream, yielded, outcome, log >>

\* the child ends on its own with an exit code
child_exit(code) ==
    /\ InProgress
    /\ os.state = "running"
    /\ os' = [os EXCEPT !.state = "exited", !.code = Some(code)]
    /\ UNCHANGED << server, running, suspended, executor, mode, command, pc, process, monitor_task,
                    stream, yielded, outcome, log >>

\* the shell cannot locate the executable: it says so on stderr and exits
shell_not_found ==
    /\ InProgress
    /\ os.state = "running"
    /\ os.children = 0
    /\ os.wrote = NoProcessOS.wrote
    /\ \E sh \in Shells :
          LET message == encode(ShellNotFoundMessage(sh))
          IN  /\ os' = [os EXCEPT !.state = "exited",
                                  !.code = Some(ShellNotFoundCode),
                                  !.wrote.stderr = message]
              /\ process' = [process EXCEPT !.buf.stderr = message]
    /\ UNCHANGED << server, running, suspended, executor, mode, command, pc, monitor_task, stream,
                    yielded, outcome, log >>

\* the child watcher reports the exit: process.returncode is set
child_watcher ==
    /\ InProgress
    /\ os.state = "exited"
    /\ process.returncode = None
    /\ process' = [process EXCEPT !.returncode = os.code]
    /\ UNCHANGED << server, running, suspended, executor, mode, command, pc, os, monitor_task,
                    stream, yielded, outcome, log >>

\* a channel reaches end-of-data: nothing holds its write end any more
pipe_eof(ch) ==
    /\ InProgress
    /\ os.state = "exited"
    /\ os.children = 0
    /\ ~process.eof[ch]
    /\ process' = [process EXCEPT !.eof[ch] = TRUE]
    /\ UNCHANGED << server, running, suspended, executor, mode, command, pc, os, monitor_task,
                    stream, yielded, outcome, log >>

(***************************************************************************)
(* The locals of one call.                                                 *)
(***************************************************************************)
Locals ==
    [mode |-> mode, command |-> command, pc |-> pc, os |-> os,
     process |-> process, monitor_task |-> monitor_task, stream |-> stream,
     yielded |-> yielded, outcome |-> outcome, log |-> log]

\* a call that has not been made yet
NewCall ==
    [mode |-> "idle", command |-> << >>, pc |-> "idle", os |-> NoProcessOS,
     process |-> NoProcess, monitor_task |-> NoTask,
     stream |-> [stdout_done |-> FALSE, stderr_done |-> FALSE, total_size |-> 0],
     yielded |-> << >>, outcome |-> NoOutcome,
     log |-> [spawns |-> 0, kills |-> 0, outcomes |-> 0]]

(***************************************************************************)
(* The messages MCPTerminalServer reads.  A message is a JSON object; of   *)
(* its keys the server looks at jsonrpc, method, params and id.  A key     *)
(* that is absent is None.  params is "missing" (key absent), "object" (a  *)
(* JSON object, whose command key is the field command) or "null" (a JSON  *)
(* value that is not an object).                                           *)
(***************************************************************************)
Message(jsonrpc, method, params, cmd, id) ==
    [jsonrpc |-> jsonrpc, method |-> method, params |-> params,
     command |-> cmd, id |-> id]

\* the local msg of start before any line was read
NoMessage == Message(None, None, "missing", None, None)

\* no server: the executor is called directly
NoServer ==
    [pc |-> "none", msg |-> NoMessage, reads |-> 0, written |-> 0, sent |-> << >>]

(***************************************************************************)
(* The specification.                                                      *)
(***************************************************************************)
Executors ==
    { TerminalExecutor(Some(<< <<"e">> >>), n, l[1], l[2], l[3]) :
        n \in OutputSizes, l \in LimitSettings }
    \cup { TerminalExecutor(Some(<< <<"e">> >>), DefaultOutputSize, None, None, None) }

Init ==
    /\ executor \in Executors
    /\ mode = "idle"
    /\ command = << >>
    /\ pc = "idle"
    /\ os = NoProcessOS
    /\ process = NoProcess
    /\ monitor_task = NoTask
    /\ stream = [stdout_done |-> FALSE, stderr_done |-> FALSE, total_size |-> 0]
    /\ yielded = << >>
    /\ outcome = NoOutcome
    /\ log = [spawns |-> 0, kills |-> 0, outcomes |-> 0]
    /\ running = 1
    /\ suspended = NewCall
    /\ server = NoServer

Next ==
    \/ \E cmd \in Commands : execute(cmd)
    \/ execute_spawn
    \/ execute_communicate
    \/ execute_await_monitor
    \/ execute_timeout
    \/ monitor_process
    \/ \E cmd \in Commands : execute_stream(cmd)
    \/ execute_stream_spawn
    \/ stream_loop
    \/ \E ch \in Channels : stream_read(ch)
    \/ stream_wait
    \/ \E ch \in Channels, b \in Bytes : child_write(ch, b)
    \/ child_fork
    \/ descendant_exit
    \/ \E code \in ExitCodes : child_exit(code)
    \/ shell_not_found
    \/ child_watcher
    \/ \E ch \in Channels : pipe_eof(ch)

\* one call at a time: the second call is never made
Spec == Init /\ [][Next]_vars


(***************************************************************************)
(* The validation specification: every command text of at most MaxCmdLen   *)
(* characters under every allow-list, each call followed up to the         *)
(* creation of its process.  A call that validation rejects is over after  *)
(* its first step, so this covers the whole of it.                         *)
(***************************************************************************)
ValidationExecutors ==
    { TerminalExecutor(a, 2, None, None, None) : a \in AllowLists }

InitValidation ==
    /\ executor \in ValidationExecutors
    /\ mode = "idle"
    /\ command = << >>
    /\ pc = "idle"
    /\ os = NoProcessOS
    /\ process = NoProcess
    /\ monitor_task = NoTask
    /\ stream = [stdout_done |-> FALSE, stderr_done |-> FALSE, total_size |-> 0]
    /\ yielded = << >>
    /\ outcome = NoOutcome
    /\ log = [spawns |-> 0, kills |-> 0, outcomes |-> 0]
    /\ running = 1
    /\ suspended = NewCall
    /\ server = NoServer

NextValidation ==
    \/ pc = "idle" /\ \E cmd \in AllCommands : execute(cmd)
    \/ pc = "idle" /\ \E cmd \in AllCommands : execute_stream(cmd)
    \/ execute_spawn
    \/ execute_stream_spawn

SpecValidation == InitValidation /\ [][NextValidation]_vars

(***************************************************************************)
(* Two calls of execute on one executor, as two coroutines of one event    *)
(* loop.  A coroutine runs from one await to the next; at an await the     *)
(* loop may resume the other.  Each call has its own locals (its process,  *)
(* its monitor task, its buffers, its deadline); self is the one object    *)
(* both refer to.                                                          *)
(***************************************************************************)
\* a switch for calls that keep their Process object in a field of self:
\* the two calls share it
switch_shared_process ==
    /\ running' = 3 - running
    /\ suspended' = Locals
    /\ mode' = suspended.mode
    /\ command' = suspended.command
    /\ pc' = suspended.pc
    /\ os' = suspended.os
    /\ monitor_task' = suspended.monitor_task
    /\ stream' = suspended.stream
    /\ yielded' = suspended.yielded
    /\ outcome' = suspended.outcome
    /\ log' = suspended.log
    /\ UNCHANGED << server, executor, process >>

switch ==
    /\ running' = 3 - running
    /\ suspended' = Locals
    /\ mode' = suspended.mode
    /\ command' = suspended.command
    /\ pc' = suspended.pc
    /\ os' = suspended.os
    /\ process' = suspended.process
    /\ monitor_task' = suspended.monitor_task
    /\ stream' = suspended.stream
    /\ yielded' = suspended.yielded
    /\ outcome' = suspended.outcome
    /\ log' = suspended.log
    /\ UNCHANGED << server, executor >>

PairExecutors ==
    { TerminalExecutor(Some(<< <<"e">> >>), 2, None, None, None) }

\* the processes of the two calls write the letter a to stdout, or nothing
PairBytes == { 97 }

InitPair ==
    /\ executor \in PairExecutors
    /\ mode = "idle"
    /\ command = << >>
    /\ pc = "idle"
    /\ os = NoProcessOS
    /\ process = NoProcess
    /\ monitor_task = NoTask
    /\ stream = [stdout_done |-> FALSE, stderr_done |-> FALSE, total_size |-> 0]
    /\ yielded = << >>
    /\ outcome = NoOutcome
    /\ log = [spawns |-> 0, kills |-> 0, outcomes |-> 0]
    /\ running = 1
    /\ suspended = NewCall
    /\ server = NoServer

NextPair ==
    \/ \E cmd \in Commands : execute(cmd)
    \/ execute_spawn
    \/ execute_communicate
    \/ execute_await_monitor
    \/ execute_timeout
    \/ monitor_process
    \/ \E b \in PairBytes : child_write("stdout", b)
    \/ \E code \in ExitCodes : child_exit(code)
    \/ child_watcher
    \/ \E ch \in Channels : pipe_eof(ch)
    \/ switch

SpecPair == InitPair /\ [][NextPair]_vars

(***************************************************************************)
(* Properties of command validation.                                       *)
(***************************************************************************)

\* a call has been made on the executor
Called == mode # "idle"

\* an allow-list is configured: allowed_commands is a list, not None
AllowListConfigured == executor.allowed_commands # None

\* the first shell-split token of the command is not in the allow-list
FirstTokenNotAllowed ==
    /\ shlex_split(command).ok
    /\ shlex_split(command).parts # << >>
    /\ ~InList(shlex_split(command).parts[1], Val(executor.allowed_commands))

\* the command text contains one of the shell operators
HasShellOperator ==
    \E i \in 1..Len(shell_operators) : Contains(command, shell_operators[i])

\* the call was rejected by validation: it is over, nothing was spawned,
\* execute returned exit code 126 and execute_stream yielded one chunk
RejectedNotAllowed ==
    /\ pc = "done"
    /\ log.spawns = 0
    /\ os.state = "none"
    /\ mode = "execute" =>
          outcome = CommandResult(126, << >>, Msg("command not allowed"))
    /\ mode = "execute_stream" =>
          /\ yielded = << Chunk("stderr", Msg("command not allowed")) >>
          /\ outcome = Ended

\* C1: with an allow-list configured, a command whose first shell-split
\* token is not a member of the list is rejected before anything is spawned:
\* execute returns exit code 126 with stderr 'command not allowed',
\* execute_stream yields that one stderr chunk and ends.
C1_NotAllowedRejected ==
    (Called /\ AllowListConfigured /\ FirstTokenNotAllowed) => RejectedNotAllowed

\* C2: with an allow-list configured, a command that contains one of the
\* operators && || | ; or a backquote is rejected (exit code 126, nothing
\* spawned) even if its first token is in the allow-list.
C2_OperatorRejected ==
    (Called /\ AllowListConfigured /\ HasShellOperator) => RejectedNotAllowed

\* What validation does guarantee: the two rejections above hold for every
\* allow-list that has at least one entry.
NonEmptyAllowListRejects ==
    (Called /\ TruthyList(executor.allowed_commands)
            /\ (FirstTokenNotAllowed \/ HasShellOperator))
        => RejectedNotAllowed

(***************************************************************************)
(* Properties of execute.                                                  *)
(***************************************************************************)

\* the process of an execute call has been spawned and the call is no
\* longer waiting for it
LeftRunning == mode = "execute" /\ log.spawns > 0 /\ pc # "communicate"

\* C3: a call of execute delivers exactly one outcome, a returned
\* CommandResult or one raised error, never two and never none once it is
\* over; it spawns at most one process, and once it has left the wait for
\* the process it never runs the process again.
C3_ExactlyOneOutcome ==
    /\ [](mode = "execute" =>
            /\ log.outcomes <= 1
            /\ log.spawns <= 1
            /\ (pc = "done") <=> (log.outcomes = 1)
            /\ (pc = "done") <=> (outcome.kind \in { "returned", "raised" })
            /\ (pc # "done") => (outcome = NoOutcome))
    /\ [][LeftRunning => /\ pc' # "communicate"
                         /\ log'.spawns = log.spawns
                         /\ os'.state # "running"]_vars
    /\ [][(mode = "execute" /\ pc = "done") =>
             (pc' = "done" /\ outcome' = outcome)]_vars

\* an execute call that spawned its process and ended with the error the
\* resource monitor raised
C3_Witness ==
    /\ mode = "execute"
    /\ pc = "done"
    /\ log.spawns = 1
    /\ log.outcomes = 1
    /\ outcome.kind = "raised"
    /\ monitor_task.state = "raised"

\* C4: when execute has returned or raised, the process it spawned is no
\* longer running, whichever way the call ended.
C4_ProcessStopped ==
    (mode = "execute" /\ pc = "done" /\ log.spawns = 1) => os.state = "exited"

\* execute raised TimeoutError and its handler's kill ended the process
C4_Witness ==
    /\ mode = "execute"
    /\ pc = "done"
    /\ outcome = Raised(TimeoutError)
    /\ os.state = "exited"
    /\ os.code = Some(-9)
    /\ log.kills = 1

\* C5: when the deadline expires and the process has not finished (its exit
\* reported and both channels at end-of-data), execute kills the process and
\* raises TimeoutError; the call delivers no CommandResult.
C5_TimeoutKillsAndRaises ==
    [][(mode = "execute" /\ pc = "communicate" /\ pc' = "done" /\ ~TransportClosed)
          => /\ outcome' = Raised(TimeoutError)
             /\ log'.kills = log.kills + 1
             /\ os'.state = "exited"]_vars

\* the deadline expired on a process that had written output and was still
\* running: the output is dropped with the TimeoutError
C5_Witness ==
    /\ mode = "execute"
    /\ pc = "done"
    /\ outcome = Raised(TimeoutError)
    /\ process.returncode = None
    /\ os.wrote.stdout # << >>
    /\ os.code = Some(-9)

\* the size check of execute is reached with decodable output: communicate
\* has returned and awaiting the monitor task raised nothing
AtSizeCheck ==
    /\ mode = "execute"
    /\ pc = "await_monitor"
    /\ monitor_task.state \notin { "raised", "error" }
    /\ decodable(process.buf.stdout)
    /\ decodable(process.buf.stderr)

\* C6: whenever the combined length of the decoded stdout and stderr is
\* greater than max_output_size, execute raises the error that names the
\* size and returns no CommandResult.
C6_OutputCapRaises ==
    [][(/\ AtSizeCheck
        /\ Len(process.buf.stdout) + Len(process.buf.stderr) > executor.max_output_size
        /\ pc' = "done")
          => outcome' = Raised(OutputExceeds(executor.max_output_size))]_vars

(***************************************************************************)
(* Properties of execute_stream.                                           *)
(***************************************************************************)

\* the characters process output decodes to
OutputChars == { chr(b) : b \in Bytes } \cup DOMAIN Ascii

\* a yielded chunk that carries process output
IsOutputChunk(c) == \A i \in 1..Len(c.data) : c.data[i] \in OutputChars

\* the combined length of the process output yielded so far
RECURSIVE YieldedOutput(_)
YieldedOutput(chunks) ==
    IF chunks = << >>
    THEN 0
    ELSE (IF IsOutputChunk(Head(chunks)) THEN Len(Head(chunks).data) ELSE 0)
         + YieldedOutput(Tail(chunks))

\* execute_stream is about to handle a chunk it has read that takes the
\* cumulative output over the cap
OverCapRead ==
    /\ mode = "execute_stream"
    /\ pc \in { "read_stdout", "read_stderr" }
    /\ LET ch == IF pc = "read_stdout" THEN "stdout" ELSE "stderr"
           data == Take(process.buf[ch], ReadSize)
       IN  /\ data # << >>
           /\ decodable(data)
           /\ stream.total_size + Len(data) > executor.max_output_size

\* C7: the output chunks execute_stream yields never add up to more than
\* max_output_size; the chunk that would cross the cap is not yielded, the
\* process is killed, one stderr chunk saying the size was exceeded is
\* yielded, and the sequence ends.
C7_StreamCapped ==
    /\ [](mode = "execute_stream" => YieldedOutput(yielded) <= executor.max_output_size)
    /\ [][(OverCapRead /\ pc' # pc)
             => /\ yielded' = Append(yielded,
                       Chunk("stderr", SizeExceeded(executor.max_output_size)))
                /\ os'.state = "exited"
                /\ pc' = "done"
                /\ outcome' = Ended]_vars

(***************************************************************************)
(* Properties of the resource monitor and of execute's results.            *)
(***************************************************************************)

\* C8: the first monitor sample that finds a configured limit exceeded
\* kills the process, and execute raises the monitor's error, whose message
\* names the limit; it neither returns a result nor raises TimeoutError.
C8_BreachReported ==
    /\ monitor_task.state = "raised" => os.state = "exited"
    /\ (mode = "execute" /\ pc = "done" /\ monitor_task.state = "raised")
          => outcome = Raised(Val(monitor_task.exc))

\* the process ended by itself: its exit code is one it chose
ExitedOnItsOwn == os.state = "exited" /\ os.code \in { Some(c) : c \in ExitCodes }

\* what the process wrote is within the output cap
WithinCap ==
    Len(os.wrote.stdout) + Len(os.wrote.stderr) <= executor.max_output_size

\* the result of a normal completion
NormalResult ==
    CommandResult(Val(os.code), decode(os.wrote.stdout), decode(os.wrote.stderr))

SpecifiedErrors ==
    { TimeoutError,
      ResourceError("CPU time limit exceeded"),
      ResourceError("Memory limit exceeded"),
      ResourceError("Process limit exceeded"),
      OutputExceeds(executor.max_output_size) }

\* C10: every failure of execute other than a timeout, a resource-limit
\* breach or an oversized output is returned as a CommandResult, so an
\* error execute raises is always one of those three.
C10_OtherFailuresReturned ==
    (mode = "execute" /\ pc = "done" /\ outcome.kind = "raised")
        => outcome \in { Raised(e) : e \in SpecifiedErrors }

(***************************************************************************)
(* Properties of the remaining outcomes of execute.                        *)
(***************************************************************************)

\* the shell could not locate the command's executable
ExecutableNotFound == os.state = "exited" /\ os.code = Some(ShellNotFoundCode)

\* C11: when the executable of a validated command cannot be located (and
\* execute gets to its result before the deadline and within the output
\* cap), execute returns a CommandResult with exit code 127, not -1, whose
\* stderr contains 'command not found'.
C11_NotFoundResult ==
    [][(AtSizeCheck /\ ExecutableNotFound /\ WithinCap /\ pc' = "done")
          => /\ outcome'.kind = "returned"
             /\ outcome'.exit_code = Some(127)
             /\ Contains(outcome'.stderr, CommandNotFoundText)]_vars

\* a call that spawned its process is over and did not end normally: it
\* raised, returned the internal-error result, or (streaming) ended on the
\* size-exceeded chunk
NonNormalExit ==
    /\ pc = "done"
    /\ log.spawns = 1
    /\ \/ outcome.kind = "raised"
       \/ outcome.kind = "returned" /\ outcome.exit_code = Some(-1)
       \/ /\ mode = "execute_stream"
          /\ yielded # << >>
          /\ yielded[Len(yielded)] =
                Chunk("stderr", SizeExceeded(executor.max_output_size))

\* C12: on every non-normal exit path of execute and execute_stream after
\* the process was spawned (timeout, output-cap excess, resource breach,
\* internal error), process.kill() has been called by the time the call
\* delivers its outcome.
C12_KillOnEveryFailure ==
    NonNormalExit => log.kills >= 1

(***************************************************************************)
(* Properties of two concurrent calls.                                     *)
(***************************************************************************)

\* the locals of call i
Call(i) == IF running = i THEN Locals ELSE suspended

\* what a call delivered is what its own process did: a result carries the
\* exit code and the output of the call's own process, and a TimeoutError
\* comes with the kill of the call's own process
OwnOutcome(c) ==
    /\ c.log.spawns <= 1
    /\ c.log.outcomes <= 1
    /\ (c.pc = "done" /\ c.log.spawns = 1 /\ c.outcome.kind = "returned"
          /\ c.outcome.exit_code # Some(-1))
          => c.outcome = CommandResult(Val(c.os.code),
                                       decode(c.os.wrote.stdout),
                                       decode(c.os.wrote.stderr))
    /\ (c.pc = "done" /\ c.outcome = Raised(TimeoutError))
          => (c.os.state = "exited" /\ c.log.kills = 1)
    /\ (c.pc = "done" /\ c.log.spawns = 0)
          => c.os = NoProcessOS

\* C13: two calls of execute running concurrently on one executor are
\* independent: no step writes a field of the executor, a step changes the
\* locals of the running call only (a switch changes none), and what each
\* call delivers is the output, exit code or failure of its own process.
C13_Independent ==
    /\ [][executor' = executor]_vars
    /\ [][\A i \in { 1, 2 } :
             (running # i \/ running' # running) => Call(i)' = Call(i)]_vars
    /\ [](\A i \in { 1, 2 } : OwnOutcome(Call(i)))

\* both calls are over: the first timed out, the second returned exit code
\* 3 and the letter its process wrote
C13_Witness ==
    /\ Call(1).pc = "done"
    /\ Call(1).outcome = Raised(TimeoutError)
    /\ Call(2).pc = "done"
    /\ Call(2).outcome = CommandResult(3, << "a" >>, << >>)
    /\ Call(1).os.code = Some(-9)
    /\ Call(2).os.code = Some(3)

(***************************************************************************)
(* More properties of command validation.                                  *)
(***************************************************************************)

\* the call was answered with the rejection of validation
AnsweredNotAllowed ==
    \/ outcome = CommandResult(126, << >>, Msg("command not allowed"))
    \/ /\ yielded # << >>
       /\ yielded[1] = Chunk("stderr", Msg("command not allowed"))

\* the call went on to create its process: it is about to, it has, or the
\* operating system refused
WentOnToSpawn ==
    \/ pc = "spawn"
    \/ log.spawns = 1
    \/ pc = "done" /\ outcome.kind \in { "returned", "raised" }

\* C14: with no allow-list configured (allowed_commands is None),
\* validation allows every command, those containing chaining operators
\* such as && included, and the call goes on to spawn the command.
C14_NoAllowListAllowsAll ==
    (Called /\ ~AllowListConfigured) => (~AnsweredNotAllowed /\ WentOnToSpawn)

\* a command containing && was spawned by an executor without allow-list
C14_Witness ==
    /\ Called
    /\ executor.allowed_commands = None
    /\ Contains(command, << "&", "&" >>)
    /\ log.spawns = 1
    /\ os.state = "running"

\* C15: with an allow-list configured but empty, every command is
\* rejected (exit code 126, 'command not allowed') and nothing is spawned.
C15_EmptyAllowListRejectsAll ==
    (Called /\ executor.allowed_commands = Some(<< >>)) => RejectedNotAllowed

\* C16: a zero-length command is always rejected (exit code 126) without
\* spawning a process, whether no allow-list is configured or one with
\* entries is (the empty allow-list is the case of C15).
C16_EmptyCommandRejected ==
    (Called /\ command = << >> /\ executor.allowed_commands # Some(<< >>))
        => RejectedNotAllowed

(***************************************************************************)
(* More properties of the resource monitor and of execute_stream.          *)
(***************************************************************************)

\* none of the three limits is configured
NoLimitConfigured ==
    /\ executor.cpu_time_ms = None
    /\ executor.max_memory_mb = None
    /\ executor.max_processes = None

\* C17: when none of cpu_time_ms, max_memory_mb and max_processes is
\* configured, execute starts no monitor activity: no monitor task exists
\* at any time of the call.
C17_NoMonitorWithoutLimits ==
    (mode = "execute" /\ NoLimitConfigured) => monitor_task = NoTask

\* the sequence of execute_stream ended without an exception and without
\* the size-exceeded chunk, after the process was spawned
StreamEndedNormally ==
    /\ mode = "execute_stream"
    /\ pc = "done"
    /\ outcome = Ended
    /\ log.spawns = 1
    /\ \A i \in 1..Len(yielded) :
          yielded[i] # Chunk("stderr", SizeExceeded(executor.max_output_size))

\* C18: the sequence of execute_stream never ends normally while the
\* process is still running.
C18_StreamEndsAfterExit ==
    StreamEndedNormally => os.state = "exited"

\* the deadline test of execute_stream finds the deadline passed: the step
\* from the head of the loop that ends the call although a channel is not
\* done
StreamDeadlineExpires ==
    /\ mode = "execute_stream"
    /\ pc = "stream_loop"
    /\ ~(stream.stdout_done /\ stream.stderr_done)
    /\ pc' = "done"

C20_StreamTimeoutKillsAndRaises ==
    [][(StreamDeadlineExpires /\ os.state = "running")
          => /\ outcome' = Raised(StreamTimeout)
             /\ os'.state = "exited"
             /\ os'.code = Some(-9)
             /\ log'.kills > log.kills]_vars

\* the deadline expired on a running process that execute_stream was
\* draining: killed, TimeoutError raised
C20_Witness ==
    /\ mode = "execute_stream"
    /\ pc = "done"
    /\ outcome = Raised(StreamTimeout)
    /\ os.code = Some(-9)
    /\ process.returncode = None
    /\ ~stream.stdout_done

(***************************************************************************)
(* Properties of the resource limits in execute_stream.                    *)
(***************************************************************************)

\* execute_stream has spawned its process and is draining its output
Draining ==
    /\ mode = "execute_stream"
    /\ pc \in { "stream_loop", "read_stdout", "read_stderr", "wait" }

\* C21: execute_stream enforces the configured limits as execute does: while
\* it drains the output of its process with a limit configured, a resource
\* monitor task exists for that process.
C21_StreamMonitored ==
    (Draining /\ AnyLimit) => monitor_task.state # "none"

(***************************************************************************)
(* Termination.  The event loop resumes a coroutine that is ready, and its *)
(* timers fire: the deadline of wait_for in execute, and the bounded reads *)
(* and the bounded wait of execute_stream, after which the loop comes back *)
(* to its deadline test; once timeout_ms has passed that test finds it     *)
(* passed.  Nothing is assumed of the child: it need not write, exit or    *)
(* close a channel.  The consumer of execute_stream keeps pulling, so a    *)
(* yield is not a place where the call stays.                              *)
(***************************************************************************)
Fairness ==
    /\ WF_vars(execute_spawn)
    /\ WF_vars(execute_timeout)
    /\ WF_vars(execute_await_monitor)
    /\ WF_vars(execute_stream_spawn)
    /\ WF_vars(stream_loop)
    /\ SF_vars(stream_loop /\ pc' = "done")
    /\ \A ch \in Channels : WF_vars(stream_read(ch))
    /\ WF_vars(stream_wait)

\* executors of each kind of monitor: none configured, one that samples
\* readings (CPU time), one that counts descendants
LiveExecutors ==
    { TerminalExecutor(Some(<< <<"e">> >>), 1, l[1], l[2], l[3]) :
        l \in { << None, None, None >>,
                << Some(1), None, None >>,
                << None, None, Some(1) >> } }

InitLive ==
    /\ executor \in LiveExecutors
    /\ mode = "idle"
    /\ command = << >>
    /\ pc = "idle"
    /\ os = NoProcessOS
    /\ process = NoProcess
    /\ monitor_task = NoTask
    /\ stream = [stdout_done |-> FALSE, stderr_done |-> FALSE, total_size |-> 0]
    /\ yielded = << >>
    /\ outcome = NoOutcome
    /\ log = [spawns |-> 0, kills |-> 0, outcomes |-> 0]
    /\ running = 1
    /\ suspended = NewCall
    /\ server = NoServer

SpecLive == InitLive /\ [][Next]_vars /\ Fairness

\* C22: every call eventually finalizes, whatever the child does: execute
\* returns or raises, and the sequence of execute_stream ends or fails.
C22_EventuallyFinalizes == Called ~> (pc = "done")

\* execute was ended by its deadline while a descendant of the killed
\* process still held both output channels open
C22_Witness ==
    /\ mode = "execute"
    /\ pc = "done"
    /\ outcome = Raised(TimeoutError)
    /\ os.children > 0
    /\ ~process.eof.stdout
    /\ ~process.eof.stderr
    /\ process.returncode = None

(***************************************************************************)
(* mcp_terminal.server.MCPTerminalServer: one server reading lines from    *)
(* its input and writing messages to its output.  Of the output the model  *)
(* keeps how many messages were written (server.written) and the messages  *)
(* written since the last line was read (server.sent).  server.msg is the  *)
(* message being handled.                                                  *)
(***************************************************************************)
\* most lines the server reads
MaxLines == 2

\* the sets of allowed commands a server is constructed with
ServerAllowSets == { None, Some(<< >>), Some(<< <<"e">> >>) }

ServerOutputSizes == { 1 }

\* the exit codes a child of the server's executor ends with on its own
ServerExitCodes == { 0, 126 }

\* MCPTerminalServer.__init__ (lines 42-46): the executor it constructs.
\* The set becomes a list, and a set without member becomes None.
MCPTerminalServer(allowed_commands, max_output_size) ==
    TerminalExecutor(IF TruthyList(allowed_commands) THEN allowed_commands ELSE None,
                     max_output_size, None, None, None)

\* Python truthiness of an optional string: None and "" are falsy
TruthyStr(o) == o # None /\ Val(o) # ""

\* the same for a string kept as a sequence of characters
TruthyText(o) == o # None /\ Val(o) # << >>

\* the messages the n-th line may hold
Messages(n) ==
    { Message(j, m, p[1], p[2], i) :
        j \in { None, Some("2.0") },
        m \in { None, Some(""), Some("execute"), Some("list") },
        p \in { << "missing", None >>, << "null", None >>, << "object", None >>,
                << "object", Some(<< >>) >>,
                << "object", Some(<< "e" >>) >>, << "object", Some(<< "c" >>) >> },
        i \in { None, Some(n) } }

\* what readline and json.loads give for the n-th line: end-of-file, a line
\* that is not JSON, the empty JSON object, or a message
Lines(n) ==
    { [kind |-> k, msg |-> NoMessage] : k \in { "eof", "malformed", "empty_object" } }
    \cup { [kind |-> "message", msg |-> m] : m \in Messages(n) }

(***************************************************************************)
(* The messages the server writes (_send_message).  A response carries     *)
(* the id of its request, or none.                                         *)
(***************************************************************************)
\* _send_capabilities (lines 115-148)
Capabilities ==
    [type |-> "capabilities", code |-> None, message |-> << >>, id |-> None,
     result |-> None]

\* _send_error (lines 150-162)
Error(message, code, id) ==
    [type |-> "error", code |-> Some(code), message |-> message, id |-> id,
     result |-> None]

\* the result response of lines 196-208
Result(id, cmd, exit_code, stdout, stderr) ==
    [type |-> "result", code |-> None, message |-> << >>, id |-> id,
     result |-> Some([command |-> cmd, exitCode |-> exit_code,
                      stdout |-> stdout, stderr |-> stderr])]

TimedOutAfter == << "Command execution timed out after", "timeout_ms", "ms" >>

\* a server that answers every CommandResult with a result response
command_response_always_result(o, cmd, id) ==
    IF o.kind = "returned"
    THEN Result(id, cmd, Val(o.exit_code), o.stdout, o.stderr)
    ELSE Error(Val(o.msg), -32000, id)

\* what _handle_message writes for the outcome o of execute (lines 188-221)
command_response(o, cmd, id) ==
    IF o.kind = "returned"
    THEN IF o.exit_code = Some(126)
         THEN Error(o.stderr, -32000, id)
         ELSE Result(id, cmd, Val(o.exit_code), o.stdout, o.stderr)
    ELSE IF IsValueError(Exception(Val(o.exc), Val(o.msg)))
    THEN Error(Val(o.msg), -32000, id)
    ELSE IF IsTimeoutError(Exception(Val(o.exc), Val(o.msg)))
    THEN Error(TimedOutAfter, -32000, id)
    ELSE Error(Val(o.msg), -32603, id)

\* start, up to the loop: the capabilities advertisement (lines 62-76)
start ==
    /\ server.pc = "start"
    /\ server' = [server EXCEPT !.pc = "read", !.sent = Append(@, Capabilities),
                                !.written = @ + 1]
    /\ UNCHANGED << running, suspended, executor, mode, command, pc, os, process,
                    monitor_task, stream, yielded, outcome, log >>

\* a _handle_message without the test of the jsonrpc key
handle_message_no_version_test ==
    /\ server.pc = "handle"
    /\ LET msg == server.msg
           reply(r) ==
               /\ server' = [server EXCEPT !.pc = "read", !.msg = NoMessage,
                                           !.sent = Append(@, r), !.written = @ + 1]
               /\ UNCHANGED << running, suspended, executor, mode, command, pc, os,
                               process, monitor_task, stream, yielded, outcome, log >>
       IN  IF ~TruthyStr(msg.method)
           THEN reply(Error(Msg("Method not found"), -32601, msg.id))
           ELSE IF Val(msg.method) # "execute"
           THEN reply(Error(<< "Method '", Val(msg.method), "' not found" >>, -32601, msg.id))
           ELSE IF msg.params = "null"
           THEN \* params.get raises AttributeError: the handler of lines 219-221
                reply(Error(Msg("'NoneType' object has no attribute 'get'"), -32603, msg.id))
           ELSE IF ~TruthyText(msg.command)
           THEN reply(Error(Msg("Missing command parameter"), -32602, msg.id))
           ELSE /\ execute_validate(Val(msg.command))
                /\ server' = [server EXCEPT !.pc = "execute"]

(***************************************************************************)
(* _handle_message from its call to the await of executor.execute (lines   *)
(* 164-189): the message read is answered with an error, or execute is     *)
(* called and runs to its first await.                                     *)
(***************************************************************************)
handle_message ==
    /\ server.pc = "handle"
    /\ LET msg == server.msg
           reply(r) ==
               /\ server' = [server EXCEPT !.pc = "read", !.msg = NoMessage,
                                           !.sent = Append(@, r), !.written = @ + 1]
               /\ UNCHANGED << running, suspended, executor, mode, command, pc, os,
                               process, monitor_task, stream, yielded, outcome, log >>
       IN  IF msg.jsonrpc # Some("2.0")
           THEN reply(Error(Msg("Invalid JSON-RPC version"), -32600, None))
           ELSE IF ~TruthyStr(msg.method)
           THEN reply(Error(Msg("Method not found"), -32601, msg.id))
           ELSE IF Val(msg.method) # "execute"
           THEN reply(Error(<< "Method '", Val(msg.method), "' not found" >>, -32601, msg.id))
           ELSE IF msg.params = "null"
           THEN \* params.get raises AttributeError: the handler of lines 219-221
                reply(Error(Msg("'NoneType' object has no attribute 'get'"), -32603, msg.id))
           ELSE IF ~TruthyText(msg.command)
           THEN reply(Error(Msg("Missing command parameter"), -32602, msg.id))
           ELSE /\ execute_validate(Val(msg.command))
                /\ server' = [server EXCEPT !.pc = "execute"]

(***************************************************************************)
(* One turn of the loop of start (lines 79-89) with _read_message (lines   *)
(* 91-103): a line is read and parsed; end-of-file, a line that is not     *)
(* JSON and a message that is falsy (the empty object) end the loop.       *)
(***************************************************************************)
read_message(line) ==
    /\ server.pc = "read"
    /\ server.reads < MaxLines
    /\ IF line.kind = "message"
       THEN server' = [server EXCEPT !.pc = "handle", !.msg = line.msg,
                                     !.reads = @ + 1, !.sent = << >>]
       ELSE IF line.kind = "malformed"
       THEN server' = [server EXCEPT
                         !.pc = "stopped", !.reads = @ + 1, !.written = @ + 1,
                         !.sent = << Error(Msg("Invalid JSON message"), -32603, None) >>]
       ELSE server' = [server EXCEPT !.pc = "stopped", !.reads = @ + 1, !.sent = << >>]
    /\ UNCHANGED << running, suspended, executor, mode, command, pc, os,
                    process, monitor_task, stream, yielded, outcome, log >>

\* a handler that writes nothing for a command that timed out
handle_result_silent_timeout ==
    /\ server.pc = "execute"
    /\ pc = "done"
    /\ IF outcome.kind = "raised" /\ outcome.exc = Some("TimeoutError")
       THEN server' = [server EXCEPT !.pc = "read", !.msg = NoMessage]
       ELSE server' = [server EXCEPT
                         !.pc = "read", !.msg = NoMessage, !.written = @ + 1,
                         !.sent = Append(@, command_response(outcome, command, server.msg.id))]
    /\ mode' = NewCall.mode
    /\ command' = NewCall.command
    /\ pc' = NewCall.pc
    /\ os' = NewCall.os
    /\ process' = NewCall.process
    /\ monitor_task' = NewCall.monitor_task
    /\ outcome' = NewCall.outcome
    /\ log' = NewCall.log
    /\ UNCHANGED << running, suspended, executor, stream, yielded >>

(***************************************************************************)
(* _handle_message after the await of executor.execute (lines 189-221):    *)
(* the response is written, the call's locals are gone, and the loop of    *)
(* start reads again.                                                      *)
(***************************************************************************)
handle_result ==
    /\ server.pc = "execute"
    /\ pc = "done"
    /\ server' = [server EXCEPT
                    !.pc = "read", !.msg = NoMessage, !.written = @ + 1,
                    !.sent = Append(@, command_response(outcome, command, server.msg.id))]
    /\ mode' = NewCall.mode
    /\ command' = NewCall.command
    /\ pc' = NewCall.pc
    /\ os' = NewCall.os
    /\ process' = NewCall.process
    /\ monitor_task' = NewCall.monitor_task
    /\ outcome' = NewCall.outcome
    /\ log' = NewCall.log
    /\ UNCHANGED << running, suspended, executor, stream, yielded >>

ServerExecutors ==
    { MCPTerminalServer(a, n) : a \in ServerAllowSets, n \in ServerOutputSizes }

InitServer ==
    /\ executor \in ServerExecutors
    /\ mode = "idle"
    /\ command = << >>
    /\ pc = "idle"
    /\ os = NoProcessOS
    /\ process = NoProcess
    /\ monitor_task = NoTask
    /\ stream = [stdout_done |-> FALSE, stderr_done |-> FALSE, total_size |-> 0]
    /\ yielded = << >>
    /\ outcome = NoOutcome
    /\ log = [spawns |-> 0, kills |-> 0, outcomes |-> 0]
    /\ running = 1
    /\ suspended = NewCall
    /\ server = [pc |-> "start", msg |-> NoMessage, reads |-> 0, written |-> 0,
                 sent |-> << >>]

NextServer ==
    \/ start
    \/ server.pc = "read" /\ \E line \in Lines(server.reads + 1) : read_message(line)
    \/ handle_message
    \/ handle_result
    \/ execute_spawn
    \/ execute_communicate
    \/ execute_await_monitor
    \/ execute_timeout
    \/ monitor_process
    \/ \E ch \in Channels, b \in Bytes : child_write(ch, b)
    \/ child_fork
    \/ descendant_exit
    \/ \E code \in ServerExitCodes : child_exit(code)
    \/ child_watcher
    \/ \E ch \in Channels : pipe_eof(ch)

SpecServer == InitServer /\ [][NextServer]_vars

(***************************************************************************)
(* Properties of the server's answers.                                     *)
(***************************************************************************)

\* the server is handling an execute request whose command validation
\* rejects
RejectedRequest ==
    /\ server.pc = "execute"
    /\ ~validate_command(executor.allowed_commands, command)

InvalidMethod(m) == ~TruthyStr(m.method) \/ Val(m.method) # "execute"

\* the command parameter of message m is missing or empty
CommandMissing(m) == ~TruthyText(m.command)

\* the step that handles a message leaves the executor uncalled: no call
\* is begun, nothing is spawned, and the loop goes back to reading
NoExecutorCall ==
    /\ mode' = "idle"
    /\ pc' = "idle"
    /\ os' = NoProcessOS
    /\ log' = log
    /\ server'.pc = "read"

\* the step wrote the one response r
Wrote(r) ==
    /\ server'.sent = << r >>
    /\ server'.written = server.written + 1

C25_CancelBeforeKill ==
    [][(mode = "execute" /\ log'.kills > log.kills)
          => /\ pc' # "communicate"
             /\ monitor_task'.state \notin { "pending", "sleeping", "raised" }]_vars

\* C26: with a resource limit configured, whenever execute terminates the
\* process (on deadline expiry or on a breach of any of the three limits),
\* every live descendant is killed first: the step that kills the process
\* leaves no descendant alive.
C26_DescendantsKilledFirst ==
    [][(/\ mode = "execute"
        /\ ~NoLimitConfigured
        /\ os.state = "running"
        /\ os'.state = "exited"
        /\ os'.code = Some(-9))
          => os'.children = 0]_vars

(***************************************************************************)
(* Properties of the output cap and of the monitor in execute.             *)
(***************************************************************************)

\* C27: in execute the output cap is enforced while the process runs, so
\* the first terminating condition decides the outcome: a call that is
\* reported as a timeout is never one whose process had written more than
\* max_output_size before the deadline.
C27_CapBeforeTimeout ==
    (mode = "execute" /\ pc = "done" /\ outcome = Raised(TimeoutError))
        => WithinCap

\* the errors the resource monitor raises for a breach
BreachErrors ==
    { ResourceError("CPU time limit exceeded"),
      ResourceError("Memory limit exceeded"),
      ResourceError("Process limit exceeded") }

\* execute is about to await the monitor task after communicate returned
AwaitingMonitor == mode = "execute" /\ pc = "await_monitor"

MonitorOutcomes ==
    { Raised(e) : e \in BreachErrors }
    \cup { CommandResult(-1, << >>, m) :
             m \in { Msg("psutil.AccessDenied"), Msg("psutil.NoSuchProcess") } }

RECURSIVE Concat(_, _)
Concat(chunks, ch) ==
    IF chunks = << >>
    THEN << >>
    ELSE (IF Head(chunks).tag = ch THEN Head(chunks).data ELSE << >>)
         \o Concat(Tail(chunks), ch)

IsPrefix(p, s) == Len(p) <= Len(s) /\ SubSeq(s, 1, Len(p)) = p

\* the chunks that carry process output
RECURSIVE OutputChunks(_)
OutputChunks(chunks) ==
    IF chunks = << >>
    THEN << >>
    ELSE (IF IsOutputChunk(Head(chunks)) THEN << Head(chunks) >> ELSE << >>)
         \o OutputChunks(Tail(chunks))

EndOfData(ch) == process.eof[ch] /\ process.buf[ch] = << >>

C31_OpenChannelsAreRead ==
    \A ch \in Channels :
        (Draining /\ Done(ch)) => EndOfData(ch)

(***************************************************************************)
(* Properties of the reserved exit code 126.                               *)
(***************************************************************************)

\* execute has returned a CommandResult for a process that ran to its end
RanToCompletion ==
    /\ mode = "execute"
    /\ pc = "done"
    /\ log.spawns > 0
    /\ os.state = "exited"
    /\ outcome.kind = "returned"
    /\ outcome.exit_code = os.code

\* C32: exit code 126 identifies validation rejection only.  execute
\* returns a result with exit code 126 only when the command was rejected
\* and no process was spawned; and the server answers a command that was
\* spawned and ran to completion with a result response carrying its real
\* exit code, never with the error response of a rejected command.
C32_ExitCode126IsRejection ==
    /\ []((mode = "execute" /\ pc = "done" /\ outcome.kind = "returned"
             /\ outcome.exit_code = Some(126))
            => (log.spawns = 0
                  /\ ~validate_command(executor.allowed_commands, command)))
    /\ [][(server.pc = "execute" /\ RanToCompletion /\ server' # server)
             => server'.sent =
                   << Result(server.msg.id, command, Val(os.code),
                             outcome.stdout, outcome.stderr) >>]_vars

(***************************************************************************)
(* Properties of the server's message loop.                                *)
(***************************************************************************)

\* C33: the message loop of start stops only when its input reaches
\* end-of-file.  Reading a line that is not JSON writes the error 'Invalid
\* JSON message' and leaves the loop reading; reading a line that holds the
\* empty JSON object leaves the loop running too.
C33_LoopStopsOnlyAtEOF ==
    [][\A line \in Lines(server.reads + 1) :
          (line.kind # "eof" /\ read_message(line))
            => /\ server'.pc # "stopped"
               /\ line.kind = "malformed"
                    => server'.sent =
                          << Error(Msg("Invalid JSON message"), -32603, None) >>]_vars

\* the server is handling a request it has read: in _handle_message, or
\* awaiting executor.execute
HandlingRequest == server.pc \in { "handle", "execute" }

\* C34: for every request the server reads, _handle_message writes exactly
\* one response, a result or an error, before the next line is read,
\* whatever the outcome of the command; the loop then reads again.  While a
\* request is handled nothing has been written for it yet; handling ends
\* with one message written and the loop back at its read; so each request
\* read so far has one response, written before the next request was read.
C34_OneResponsePerRequest ==
    /\ [](HandlingRequest
            => (server.sent = << >> /\ server.written = server.reads))
    /\ []((server.pc = "read" /\ server.reads > 0)
            => /\ server.written = server.reads + 1
               /\ Len(server.sent) = 1
               /\ server.sent[1].type \in { "result", "error" })
    /\ [][(HandlingRequest /\ server' # server)
             => \/ server'.pc = "execute" /\ server'.written = server.written
                \/ server'.pc = "read" /\ server'.written = server.written + 1]_vars

\* the second request's command timed out and was answered with an error,
\* after the first request was answered, and the loop is reading again
C34_Witness ==
    /\ server.pc = "read"
    /\ server.reads = 2
    /\ server.written = 3
    /\ server.sent = << Error(TimedOutAfter, -32000, Some(2)) >>

(***************************************************************************)
(* Properties of the values a limit may be given.                          *)
(***************************************************************************)

\* limit is configured (not absent) and usage is greater than it
Exceeds(limit, usage) == limit # None /\ usage > Val(limit)

\* a sample of a live process with readings cpu and mem shows usage over a
\* configured limit, 0 included
SampleOverLimit(cpu, mem) ==
    \/ Exceeds(executor.cpu_time_ms, cpu)
    \/ Exceeds(executor.max_memory_mb, mem)
    \/ Exceeds(executor.max_processes, LiveChildren + 1)

\* C35: only an absent limit is unbounded.  Every configured value of
\* cpu_time_ms, max_memory_mb and max_processes, 0 included, is enforced:
\* a monitor sample of the running process that shows usage greater than a
\* configured limit is a breach (the monitor raises its error).
C35_ConfiguredLimitsEnforced ==
    [][\A s \in Samples :
          (/\ mode = "execute"
           /\ process.returncode = None
           /\ s.gone = 0
           /\ ~s.denied
           /\ SampleOverLimit(s.cpu, s.mem)
           /\ monitor_task.state \in { "pending", "sleeping" }
           /\ monitor_sample(s.cpu, s.mem, s.gone, s.denied))
            => monitor_task'.state = "raised"]_vars

(***************************************************************************)
(* Properties of the boundary of the output cap.                           *)
(***************************************************************************)

\* the combined length of what the process wrote
Written == Len(os.wrote.stdout) + Len(os.wrote.stderr)

\* a combined output of exactly max_output_size is not over the cap:
\* execute returns it whole in a normal result, and a sequence of
\* execute_stream that ends normally has delivered all of it
ExactlyCapIsNormal ==
    /\ [][(/\ AtSizeCheck
           /\ ExitedOnItsOwn
           /\ decodable(os.wrote.stdout)
           /\ decodable(os.wrote.stderr)
           /\ Written = executor.max_output_size
           /\ pc' = "done")
             => outcome' = NormalResult]_vars
    /\ []((/\ mode = "execute_stream"
           /\ pc = "done"
           /\ outcome = Ended
           /\ log.spawns = 1
           /\ ExitedOnItsOwn
           /\ decodable(os.wrote.stdout)
           /\ decodable(os.wrote.stderr)
           /\ Written = executor.max_output_size)
            => \A ch \in Channels : Concat(yielded, ch) = decode(os.wrote[ch]))

\* a combined output of max_output_size + 1 is an output-cap failure:
\* execute raises the error that names the size, and execute_stream ends
\* its sequence with the size-exceeded element
OneOverCapFails ==
    /\ [][(/\ AtSizeCheck
           /\ Len(process.buf.stdout) + Len(process.buf.stderr)
                 = executor.max_output_size + 1
           /\ pc' = "done")
             => outcome' = Raised(OutputExceeds(executor.max_output_size))]_vars
    /\ [][(/\ OverCapRead
           /\ stream.total_size + Len(process.buf[IF pc = "read_stdout"
                                                  THEN "stdout" ELSE "stderr"])
                 = executor.max_output_size + 1
           /\ stream' # stream)
             => /\ pc' = "done"
                /\ outcome' = Ended
                /\ yielded' = Append(yielded,
                      Chunk("stderr", SizeExceeded(executor.max_output_size)))]_vars

\* C36: the output cap is a strict bound in both modes.  A process whose
\* combined output is exactly max_output_size is not treated as exceeding
\* the cap, while a combined output of max_output_size + 1 is an output-cap
\* failure.
C36_CapIsStrictBound == ExactlyCapIsNormal /\ OneOverCapFails

====
